---- MODULE Spec2Model ----
(***************************************************************************)
(* VaultShield sequence-anomaly engine: the three Markov-chain trainers    *)
(* and their scorers, as they are written in                               *)
(*   models/vaultshield_analytics/train_markov_chain.py + score_sequences  *)
(*       (variant "chain":    dense matrix, additive smoothing),           *)
(*   models/vaultshield_analytics/vaultshield_pipeline.py                  *)
(*       (variant "pipeline": nested dicts, no smoothing),                 *)
(*   pipelines/vaultshield/train_markov.py + score_sessions.py             *)
(*       (variant "batch":    nested dicts, 'START'/'END' tokens).         *)
(*                                                                         *)
(* Probabilities are exact fractions <<numerator, denominator>>: the pair  *)
(* the code divides.  A score is kept as the sequence of probabilities     *)
(* whose logarithm the code takes (terms) and the divisor it applies.      *)
(***************************************************************************)
EXTENDS Integers, Sequences, FiniteSets, TLC

VARIABLES
    variant,    \* which trainer/scorer pair runs
    corpus,     \* the sessions of the log file, in the order they are presented
    phase,      \* "untrained" | "trained" | "train_failed" | "score_failed"
    model,      \* the trainer's output
    results,    \* the score records of the batch, in scoring order
    error,      \* the exception that ended the last operation, or None
    baseline,   \* the model of the first training run (history)
    edits,      \* what changed in the corpus since then (history)
    export,     \* export_artifacts: the scored population and what is derived from it
    soft,       \* evaluate_soft_metrics: its arguments and what it returned
    files,      \* the model artifacts on disk, the trainer writing and the scorer loading them
    runner      \* run_pipeline: its position, the stages started and their exit codes

vars == <<variant, corpus, phase, model, results, error, baseline, edits, export, soft, files, runner>>

\* ------------------------------------------------------------------ bounds
MaxSessions == 2
MaxLen == 2
MaxScored == 2

\* --------------------------------------------------------- program constants
\* epsilon = 1e-5 (train_markov_chain.py): counts are kept in units of 1/SmoothingDen
SmoothingDen == 100000
\* EPSILON = 1e-9 (score_sequences.py)
ChainEpsilonDen == 1000000000
\* EPSILON = 1e-9 (vaultshield_pipeline.py)
PipelineEpsilonDen == 1000000000
\* EPSILON = 1e-6 (pipelines/vaultshield/score_sessions.py)
BatchEpsilonDen == 1000000

START_TOKEN == "SESSION_START"
END_TOKEN == "SESSION_END"
BATCH_START == "START"
BATCH_END == "END"
None == "None"

\* Event types of the generator, in Python's string order (what sorted() yields).
EventOrder == <<"login_attempt", "mfa_challenge">>
EventTypes == {EventOrder[i] : i \in 1..Len(EventOrder)}
Rank(e) == CHOOSE i \in 1..Len(EventOrder) : EventOrder[i] = e

Variants == {"chain", "pipeline", "batch"}

\* ------------------------------------------------------------- fractions
\* a/b < c/d for a, c >= 0 and b, d > 0, by continued fractions (no products,
\* so no 32-bit overflow with denominators near 1e9).
RECURSIVE FracLess(_, _, _, _)
FracLess(a, b, c, d) ==
    LET qa == a \div b
        qc == c \div d
        ra == a % b
        rc == c % d
    IN  IF qa # qc THEN qa < qc
        ELSE IF rc = 0 THEN FALSE
        ELSE IF ra = 0 THEN TRUE
        ELSE FracLess(d, rc, b, ra)

Less(p, q) == FracLess(p[1], p[2], q[1], q[2])
One == <<1, 1>>

\* ------------------------------------------------------------ the corpus
EventSeqs == UNION {[1..n -> EventTypes] : n \in 0..MaxLen}
SessionIds == 1..MaxSessions
Sessions == [session_id : SessionIds, events : EventSeqs, is_attack : BOOLEAN]
DistinctIds(c) == \A i, j \in 1..Len(c) : i # j => c[i].session_id # c[j].session_id
Corpora == {c \in UNION {[1..n -> Sessions] : n \in 0..MaxSessions} : DistinctIds(c)}

\* One log line per event; the timestamp is the event's position in its session.
SessionRows(s) ==
    [i \in 1..Len(s.events) |->
        [session_id |-> s.session_id, timestamp |-> i,
         event_type |-> s.events[i], is_attack |-> s.is_attack]]

RECURSIVE load_data(_)
load_data(c) == IF c = <<>> THEN <<>> ELSE SessionRows(Head(c)) \o load_data(Tail(c))

\* Mutant: the label filter is left out.
FilterNormal_unfiltered(df) == df

\* df[df["is_attack"] == False]
FilterNormal(df) == SelectSeq(df, LAMBDA r : r.is_attack = FALSE)

RowLess(r, s) ==
    \/ r.session_id < s.session_id
    \/ r.session_id = s.session_id /\ r.timestamp < s.timestamp

RECURSIVE InsertRow(_, _)
InsertRow(r, s) ==
    IF s = <<>> THEN <<r>>
    ELSE IF RowLess(r, Head(s)) THEN <<r>> \o s
    ELSE <<Head(s)>> \o InsertRow(r, Tail(s))

\* df.sort_values(["session_id", "timestamp"])
RECURSIVE sort_values(_)
sort_values(df) == IF df = <<>> THEN <<>> ELSE InsertRow(Head(df), sort_values(Tail(df)))

RECURSIVE SortedIds(_)
SortedIds(S) ==
    IF S = {} THEN <<>>
    ELSE LET m == CHOOSE x \in S : \A y \in S : x <= y IN <<m>> \o SortedIds(S \ {m})

GroupEvents(df, sid) ==
    LET g == SelectSeq(df, LAMBDA r : r.session_id = sid)
    IN  [i \in 1..Len(g) |-> g[i].event_type]

\* df.groupby("session_id"): one event list per session id that has a row, by id.
groupby(df) ==
    LET ids == SortedIds({df[i].session_id : i \in 1..Len(df)})
    IN  [k \in 1..Len(ids) |-> GroupEvents(df, ids[k])]

\* Mutant: the closing transition last -> end is not recorded.
SessionTransitions_no_end(events, start, end) ==
    <<<<start, events[1]>>>>
    \o [i \in 1..(Len(events) - 1) |-> <<events[i], events[i + 1]>>]

\* The transitions one session contributes: start -> first, event -> event, last -> end.
SessionTransitions(events, start, end) ==
    <<<<start, events[1]>>>>
    \o [i \in 1..(Len(events) - 1) |-> <<events[i], events[i + 1]>>]
    \o <<<<events[Len(events)], end>>>>

\* pandas unique(): the distinct values in order of first appearance.
RECURSIVE unique(_)
unique(s) ==
    IF s = <<>> THEN <<>>
    ELSE LET u == unique(SubSeq(s, 1, Len(s) - 1))
             x == s[Len(s)]
         IN  IF \E i \in 1..Len(u) : u[i] = x THEN u ELSE Append(u, x)

RECURSIVE InsertEvent(_, _)
InsertEvent(e, s) ==
    IF s = <<>> THEN <<e>>
    ELSE IF Rank(e) < Rank(Head(s)) THEN <<e>> \o s
    ELSE <<Head(s)>> \o InsertEvent(e, Tail(s))

\* Python sorted() on a list of event-type strings.
RECURSIVE sorted(_)
sorted(s) == IF s = <<>> THEN <<>> ELSE InsertEvent(Head(s), sorted(Tail(s)))

EventColumn(df) == [i \in 1..Len(df) |-> df[i].event_type]

\* Mutant: the distinct event types are not sorted.
unique_events_unsorted(df) == unique(EventColumn(df))

\* sorted(df_normal["event_type"].unique().tolist())
unique_events(df) == sorted(unique(EventColumn(df)))

\* {s: i for i, s in enumerate(states)}: 0-based, a repeated key keeps its last index.
StateToIdx(states) ==
    [s \in {states[i] : i \in 1..Len(states)} |->
        (CHOOSE i \in 1..Len(states) :
            states[i] = s /\ \A j \in 1..Len(states) : states[j] = s => j <= i) - 1]

\* counts[c_idx, n_idx] += 1 for each transition of one session, in order.
RECURSIVE CountPairs(_, _, _)
CountPairs(counts, pairs, idx) ==
    IF pairs = <<>> THEN counts
    ELSE LET c == idx[Head(pairs)[1]]
             n == idx[Head(pairs)[2]]
         IN  CountPairs([counts EXCEPT ![c][n] = @ + 1], Tail(pairs), idx)

\* The loop over df_sorted.groupby("session_id") of build_transition_matrix;
\* events[0] of an empty list raises IndexError.
RECURSIVE ChainCounts(_, _, _)
ChainCounts(counts, groups, idx) ==
    IF groups = <<>> THEN [error |-> None, counts |-> counts]
    ELSE IF Head(groups) = <<>> THEN [error |-> "IndexError", counts |-> counts]
    ELSE ChainCounts(
            CountPairs(counts, SessionTransitions(Head(groups), START_TOKEN, END_TOKEN), idx),
            Tail(groups), idx)

RECURSIVE SumRow(_, _)
SumRow(row, n) == IF n = 0 THEN 0 ELSE row[n - 1] + SumRow(row, n - 1)

\* Mutant: the counts are overwritten by epsilon (counts = epsilon).
Smoothed_overwrite(counts) ==
    [i \in DOMAIN counts |-> [j \in DOMAIN counts[i] |-> 1]]

\* counts += epsilon, in units of 1/SmoothingDen
Smoothed(counts) ==
    [i \in DOMAIN counts |-> [j \in DOMAIN counts[i] |-> counts[i][j] * SmoothingDen + 1]]

\* Mutant: the sums are taken down the columns (axis=0).
row_sums_axis0(counts, n) ==
    [i \in 0..(n - 1) |-> SumRow([k \in 0..(n - 1) |-> counts[k][i]], n)]

\* counts.sum(axis=1, keepdims=True)
row_sums(counts, n) == [i \in 0..(n - 1) |-> SumRow(counts[i], n)]

\* probs = counts / row_sums
Normalize(counts, n) ==
    LET sums == row_sums(counts, n)
    IN  [i \in 0..(n - 1) |-> [j \in 0..(n - 1) |-> <<counts[i][j], sums[i]>>]]

build_transition_matrix(df_normal) ==
    LET states == <<START_TOKEN>> \o unique_events(df_normal) \o <<END_TOKEN>>
        idx == StateToIdx(states)
        n == Len(states)
        zeros == [i \in 0..(n - 1) |-> [j \in 0..(n - 1) |-> 0]]
        counted == ChainCounts(zeros, groupby(sort_values(df_normal)), idx)
    IN  IF counted.error # None THEN [error |-> counted.error]
        ELSE [error |-> None, kind |-> "matrix", states |-> states, state_to_idx |-> idx,
              counts |-> counted.counts,
              probs |-> Normalize(Smoothed(counted.counts), n)]

\* train_markov_chain.main: filter the normal rows, then build the matrix.
TrainChain(c) == build_transition_matrix(FilterNormal(load_data(c)))

\* -------------------------------------------------------- dict-based trainers
EmptyDict == [x \in {} |-> 0]

\* transitions[u][v] += 1 on a defaultdict(lambda: defaultdict(int))
Incr(d, u, v) ==
    IF u \in DOMAIN d
    THEN [d EXCEPT ![u] = IF v \in DOMAIN @ THEN [@ EXCEPT ![v] = @ + 1] ELSE @ @@ (v :> 1)]
    ELSE d @@ (u :> (v :> 1))

RECURSIVE IncrPairs(_, _)
IncrPairs(d, pairs) ==
    IF pairs = <<>> THEN d ELSE IncrPairs(Incr(d, Head(pairs)[1], Head(pairs)[2]), Tail(pairs))

\* The loop of train_markov_model: "if not events: continue".
RECURSIVE PipelineCounts(_, _)
PipelineCounts(d, groups) ==
    IF groups = <<>> THEN d
    ELSE IF Head(groups) = <<>> THEN PipelineCounts(d, Tail(groups))
    ELSE PipelineCounts(
            IncrPairs(d, SessionTransitions(Head(groups), START_TOKEN, END_TOKEN)),
            Tail(groups))

\* The loop of pipelines/vaultshield/train_markov.main; seq[0] of an empty
\* list raises IndexError.
RECURSIVE BatchCounts(_, _)
BatchCounts(d, groups) ==
    IF groups = <<>> THEN [error |-> None, counts |-> d]
    ELSE IF Head(groups) = <<>> THEN [error |-> "IndexError", counts |-> d]
    ELSE BatchCounts(
            IncrPairs(d, SessionTransitions(Head(groups), BATCH_START, BATCH_END)),
            Tail(groups))

RECURSIVE SumValues(_, _)
SumValues(f, S) ==
    IF S = {} THEN 0
    ELSE LET x == CHOOSE y \in S : TRUE IN f[x] + SumValues(f, S \ {x})

\* {src: {tgt: count/total for tgt, count in targets.items()}}
ToProbabilities(transitions) ==
    [src \in DOMAIN transitions |->
        LET targets == transitions[src]
            total == SumValues(targets, DOMAIN targets)
        IN  [tgt \in DOMAIN targets |-> <<targets[tgt], total>>]]

train_markov_model(df) ==
    LET normal_df == sort_values(FilterNormal(df))
        transitions == PipelineCounts(EmptyDict, groupby(normal_df))
    IN  [error |-> None, kind |-> "dict", counts |-> transitions,
         probs |-> ToProbabilities(transitions)]

TrainPipeline(c) == train_markov_model(load_data(c))

TimeLess(r, s) == r.timestamp < s.timestamp

RECURSIVE InsertByTime(_, _)
InsertByTime(r, s) ==
    IF s = <<>> THEN <<r>>
    ELSE IF TimeLess(r, Head(s)) THEN <<r>> \o s
    ELSE <<Head(s)>> \o InsertByTime(r, Tail(s))

\* df.sort_values('timestamp_utc'): rows of one session keep their time order
\* whatever the sort does with equal timestamps of different sessions.
RECURSIVE sort_by_time(_)
sort_by_time(df) == IF df = <<>> THEN <<>> ELSE InsertByTime(Head(df), sort_by_time(Tail(df)))

TrainBatch(c) ==
    LET df_normal == FilterNormal(load_data(c))
        sessions == groupby(sort_by_time(df_normal))
        counted == BatchCounts(EmptyDict, sessions)
    IN  IF counted.error # None THEN [error |-> counted.error]
        ELSE [error |-> None, kind |-> "dict", counts |-> counted.counts,
              probs |-> ToProbabilities(counted.counts)]

Trainer(v, c) ==
    CASE v = "chain" -> TrainChain(c)
      [] v = "pipeline" -> TrainPipeline(c)
      [] v = "batch" -> TrainBatch(c)

\* ------------------------------------------------------------------ scorers
ChainEpsilon == <<1, ChainEpsilonDen>>
PipelineEpsilon == <<1, PipelineEpsilonDen>>
BatchEpsilon == <<1, BatchEpsilonDen>>

Found(p) == [error |-> None, prob |-> p]
KeyError == [error |-> "KeyError"]

\* Python max(a, b): b only when b > a.
Max(a, b) == IF Less(a, b) THEN b ELSE a

Pad(events, start, end) == <<start>> \o events \o <<end>>

\* Mutant: the state map is subscripted without the membership test.
ChainLookup_unguarded(m, curr_state, next_state) ==
    IF curr_state \notin DOMAIN m.state_to_idx \/ next_state \notin DOMAIN m.state_to_idx
    THEN KeyError
    ELSE Found(m.probs[m.state_to_idx[curr_state]][m.state_to_idx[next_state]])

\* score_sequences.score_session, the branch on unknown states and the lookup.
ChainLookup(m, curr_state, next_state) ==
    IF curr_state \notin DOMAIN m.state_to_idx \/ next_state \notin DOMAIN m.state_to_idx
    THEN Found(ChainEpsilon)
    ELSE Found(m.probs[m.state_to_idx[curr_state]][m.state_to_idx[next_state]])

\* Mutant: an unseen transition defaults to probability 0.
DictLookup_zero(m, u, v, eps) ==
    IF u \in DOMAIN m.probs /\ v \in DOMAIN m.probs[u] THEN Found(m.probs[u][v]) ELSE Found(<<0, 1>>)

\* dict.get(u, {}).get(v, EPSILON)
DictLookup(m, u, v, eps) ==
    IF u \in DOMAIN m.probs /\ v \in DOMAIN m.probs[u] THEN Found(m.probs[u][v]) ELSE Found(eps)

\* "if prob < min_prob": the running minimum and the pair that produced it.
TrackWorst(acc, prob, pair) ==
    IF Less(prob, acc.worst_prob)
    THEN [acc EXCEPT !.worst_prob = prob, !.worst_transition = pair]
    ELSE acc

\* Mutant: the accumulators are not reset between two sessions of a batch.
StartWalk_carried ==
    IF results = <<>>
    THEN [error |-> None, pairs |-> <<>>, terms |-> <<>>,
          worst_prob |-> One, worst_transition |-> <<None>>]
    ELSE [error |-> None, pairs |-> <<>>, terms |-> <<>>,
          worst_prob |-> results[Len(results)].worst_prob,
          worst_transition |-> results[Len(results)].worst_transition]

\* "worst_prob = 1.0; worst_transition = None" at the top of score_session.
StartWalk == [error |-> None, pairs |-> <<>>, terms |-> <<>>,
              worst_prob |-> One, worst_transition |-> <<None>>]

\* The loop "for i in range(len(full_sequence) - 1)" of score_sequences.score_session.
RECURSIVE ChainWalk(_, _, _, _)
ChainWalk(acc, seq, i, m) ==
    IF i > Len(seq) - 1 THEN acc
    ELSE LET pair == <<seq[i], seq[i + 1]>>
             got == ChainLookup(m, pair[1], pair[2])
         IN  IF got.error # None THEN [acc EXCEPT !.error = got.error]
             ELSE LET prob == Max(got.prob, ChainEpsilon)
                      counted == [acc EXCEPT !.pairs = Append(@, pair),
                                             !.terms = Append(@, prob)]
                  IN  ChainWalk(TrackWorst(counted, prob, pair), seq, i + 1, m)

ScoreChain(events, m) ==
    LET full_sequence == Pad(events, START_TOKEN, END_TOKEN)
        walked == ChainWalk(StartWalk, full_sequence, 1, m)
    IN  [events |-> events, error |-> walked.error, pairs |-> walked.pairs,
         terms |-> walked.terms, divisor |-> Len(full_sequence),
         worst_transition |-> walked.worst_transition, worst_prob |-> walked.worst_prob]

\* The loop "for i in range(len(seq) - 1)" of vaultshield_pipeline.score_session.
RECURSIVE PipelineWalk(_, _, _, _)
PipelineWalk(acc, seq, i, m) ==
    IF i > Len(seq) - 1 THEN acc
    ELSE LET pair == <<seq[i], seq[i + 1]>>
             got == DictLookup(m, pair[1], pair[2], PipelineEpsilon)
         IN  IF got.error # None THEN [acc EXCEPT !.error = got.error]
             ELSE LET counted == [acc EXCEPT !.pairs = Append(@, pair),
                                             !.terms = Append(@, got.prob)]
                  IN  PipelineWalk(TrackWorst(counted, got.prob, pair), seq, i + 1, m)

ScorePipeline(events, m) ==
    LET seq == Pad(events, START_TOKEN, END_TOKEN)
        walked == PipelineWalk(StartWalk, seq, 1, m)
    IN  [events |-> events, error |-> walked.error, pairs |-> walked.pairs,
         terms |-> walked.terms, divisor |-> Len(seq),
         worst_transition |-> walked.worst_transition, worst_prob |-> walked.worst_prob]

\* The loop "for next_evt in events" of pipelines/vaultshield/score_sessions.main:
\* curr starts at 'START' and follows the events; the raw sum is the score.
RECURSIVE BatchWalk(_, _, _, _)
BatchWalk(acc, curr, rest, m) ==
    IF rest = <<>> THEN acc
    ELSE LET next_evt == Head(rest)
             got == DictLookup(m, curr, next_evt, BatchEpsilon)
         IN  IF got.error # None THEN [acc EXCEPT !.error = got.error]
             ELSE BatchWalk([acc EXCEPT !.pairs = Append(@, <<curr, next_evt>>),
                                        !.terms = Append(@, got.prob)],
                            next_evt, Tail(rest), m)

ScoreBatch(events, m) ==
    LET walked == BatchWalk([error |-> None, pairs |-> <<>>, terms |-> <<>>],
                            BATCH_START, events, m)
    IN  [events |-> events, error |-> walked.error, pairs |-> walked.pairs,
         terms |-> walked.terms, divisor |-> 1, event_count |-> Len(events)]

Scorer(v, events, m) ==
    CASE v = "chain" -> ScoreChain(events, m)
      [] v = "pipeline" -> ScorePipeline(events, m)
      [] v = "batch" -> ScoreBatch(events, m)

\* ------------------------------------------------------------ state machine
NoModel == [error |-> None, kind |-> "none"]
NoExport == [stage |-> "none"]
NoSoft == [stage |-> "none"]
NoFiles == [stage |-> "none"]
NoRunner == [stage |-> "none"]

Init ==
    /\ variant \in Variants
    /\ corpus \in Corpora
    /\ phase = "untrained"
    /\ model = NoModel
    /\ results = <<>>
    /\ error = None
    /\ baseline = NoModel
    /\ edits = {}
    /\ export = NoExport
    /\ soft = NoSoft
    /\ files = NoFiles
    /\ runner = NoRunner

\* One training run over the current corpus.
Train ==
    /\ phase = "untrained"
    /\ LET out == Trainer(variant, corpus)
       IN  /\ error' = out.error
           /\ IF out.error = None
              THEN /\ model' = out
                   /\ phase' = "trained"
                   /\ baseline' = IF baseline = NoModel THEN out ELSE baseline
              ELSE /\ model' = NoModel
                   /\ phase' = "train_failed"
                   /\ baseline' = baseline
    /\ results' = <<>>
    /\ UNCHANGED <<variant, corpus, edits, export, soft, files, runner>>

\* The scoring loop's body for the next session of the batch.
ScoreSession(events) ==
    /\ phase = "trained"
    /\ Len(results) < MaxScored
    /\ LET r == Scorer(variant, events, model)
       IN  /\ error' = r.error
           /\ IF r.error = None
              THEN /\ results' = Append(results, r)
                   /\ phase' = phase
              ELSE /\ results' = results
                   /\ phase' = "score_failed"
    /\ UNCHANGED <<variant, corpus, model, baseline, edits, export, soft, files, runner>>

Score == \E events \in EventSeqs : ScoreSession(events)

Next == Train \/ Score

Spec == Init /\ [][Next]_vars

\* ---------------------------------------------- the corpus between two runs
\* The log file changes between two training runs; the next run trains afresh.
NewRun(c, kind) ==
    /\ phase = "trained"
    /\ corpus' = c
    /\ phase' = "untrained"
    /\ model' = NoModel
    /\ results' = <<>>
    /\ error' = None
    /\ edits' = edits \cup {kind}
    /\ UNCHANGED <<variant, baseline, export, soft, files, runner>>

Remove(c, i) == SubSeq(c, 1, i - 1) \o SubSeq(c, i + 1, Len(c))

AttackAdded ==
    \E s \in Sessions :
        /\ s.is_attack
        /\ Len(corpus) < MaxSessions
        /\ \A i \in 1..Len(corpus) : corpus[i].session_id # s.session_id
        /\ NewRun(Append(corpus, s), "attack_added")

AttackRemoved ==
    \E i \in 1..Len(corpus) :
        /\ corpus[i].is_attack
        /\ NewRun(Remove(corpus, i), "attack_removed")

AttackChanged ==
    \E i \in 1..Len(corpus), ev \in EventSeqs :
        /\ corpus[i].is_attack
        /\ ev # corpus[i].events
        /\ NewRun([corpus EXCEPT ![i].events = ev], "attack_changed")

Reordered ==
    \E i \in 1..(Len(corpus) - 1) :
        NewRun([corpus EXCEPT ![i] = corpus[i + 1], ![i + 1] = corpus[i]], "reordered")

NextRetrain == Train \/ AttackAdded \/ AttackRemoved \/ AttackChanged \/ Reordered

SpecRetrain == Init /\ [][NextRetrain]_vars

AttackEdits == {"attack_added", "attack_removed", "attack_changed"}

\* The event types that appear in the sessions of the given label.
EventsIn(c, attack) ==
    UNION {{c[i].events[k] : k \in 1..Len(c[i].events)} :
              i \in {j \in 1..Len(c) : c[j].is_attack = attack}}

\* ------------------------------------------------------------------ claims

\* C1: only sessions labelled is_attack == False contribute to the trained
\* model: after attack-labelled sessions were added to, removed from or changed
\* in the corpus, the next training run returns the model of the first run
\* (same state space, same counts, same probabilities).
C1_AttackSessionsNeverTrain ==
    (phase = "trained" /\ edits # {} /\ edits \subseteq AttackEdits) => model = baseline

\* C1 witness: all three kinds of edit happened, the corpus holds an attack
\* session with an event type no normal session has, and training ran again.
C1_Witness ==
    /\ phase = "trained"
    /\ edits = AttackEdits
    /\ EventsIn(corpus, FALSE) # {}
    /\ EventsIn(corpus, TRUE) \ EventsIn(corpus, FALSE) # {}

\* C10: training is invariant to the order in which the sessions are
\* presented: after the corpus was only reordered, the next training run
\* returns the same state-to-index map, raw counts and probability table.
C10_OrderInvariant ==
    (phase = "trained" /\ edits = {"reordered"}) => model = baseline

\* C10 witness: two normal sessions that start with different event types
\* were swapped and training ran again.
C10_Witness ==
    /\ phase = "trained"
    /\ edits = {"reordered"}
    /\ Len(corpus) = 2
    /\ ~corpus[1].is_attack /\ ~corpus[2].is_attack
    /\ corpus[1].events # <<>> /\ corpus[2].events # <<>>
    /\ corpus[1].events[1] # corpus[2].events[1]
    /\ corpus[1].session_id > corpus[2].session_id

\* ------------------------------------------------- what a model knows
\* The state space frozen at training time: the keys of the state map, or
\* every source and target the nested dicts hold.
KnownStates(m) ==
    IF m.kind = "matrix" THEN DOMAIN m.state_to_idx
    ELSE DOMAIN m.probs \cup UNION {DOMAIN m.probs[u] : u \in DOMAIN m.probs}

\* The source states with at least one counted outgoing transition.
ObservedSources(m) ==
    IF m.kind = "matrix"
    THEN {u \in DOMAIN m.state_to_idx :
            SumRow(m.counts[m.state_to_idx[u]], Len(m.states)) > 0}
    ELSE DOMAIN m.counts

HasRow(m, u) ==
    IF m.kind = "matrix"
    THEN u \in DOMAIN m.state_to_idx /\ m.state_to_idx[u] \in DOMAIN m.probs
    ELSE u \in DOMAIN m.probs

HasEntry(m, u, v) ==
    IF m.kind = "matrix"
    THEN u \in DOMAIN m.state_to_idx /\ v \in DOMAIN m.state_to_idx
    ELSE u \in DOMAIN m.probs /\ v \in DOMAIN m.probs[u]

Entry(m, u, v) ==
    IF m.kind = "matrix" THEN m.probs[m.state_to_idx[u]][m.state_to_idx[v]] ELSE m.probs[u][v]

\* The targets a row of the table holds a probability for.
RowTargets(m, u) == {v \in KnownStates(m) : HasEntry(m, u, v)}

Fallback(v) ==
    CASE v = "chain" -> ChainEpsilon
      [] v = "pipeline" -> PipelineEpsilon
      [] v = "batch" -> BatchEpsilon

StartOf(v) == IF v = "batch" THEN BATCH_START ELSE START_TOKEN
EndOf(v) == IF v = "batch" THEN BATCH_END ELSE END_TOKEN

\* C2: in a trained model every source state with an observed outgoing
\* transition has probabilities with one common denominator whose numerators
\* sum to that denominator: the row sums to exactly 1.
C2_RowsSumToOne ==
    phase = "trained" =>
        \A u \in ObservedSources(model) :
            LET T == RowTargets(model, u)
                den == Entry(model, u, CHOOSE v \in T : TRUE)[2]
            IN  /\ T # {}
                /\ \A v \in T : Entry(model, u, v)[2] = den
                /\ SumValues([v \in T |-> Entry(model, u, v)[1]], T) = den

\* C2 witness: a trained matrix with a row that has two different observed
\* targets, one of them seen twice.
C2_Witness ==
    /\ phase = "trained"
    /\ variant = "chain"
    /\ \E i \in DOMAIN model.counts :
        \E j, k \in DOMAIN model.counts[i] :
            j # k /\ model.counts[i][j] = 2 /\ model.counts[i][k] = 1

\* C3: every probability whose logarithm a score takes lies in (0, 1] and the
\* divisor is positive, so every score is finite and >= 0.
C3_ScoreFiniteNonNegative ==
    \A k \in 1..Len(results) :
        /\ results[k].divisor > 0
        /\ \A i \in 1..Len(results[k].terms) :
            LET p == results[k].terms[i]
            IN  0 < p[1] /\ p[1] <= p[2]

\* C3 witness: a two-event session with an event type the model never saw was
\* scored against a nested-dict model that has rows.
C3_Witness ==
    /\ phase = "trained"
    /\ variant = "pipeline"
    /\ DOMAIN model.probs # {}
    /\ \E k \in 1..Len(results) :
        /\ Len(results[k].events) = 2
        /\ \E i \in 1..2 : results[k].events[i] \notin KnownStates(model)

\* C4 (as claimed): after training, every source state with an observed
\* outgoing transition holds a strictly positive probability for every target
\* state of the discovered state space, observed or not.
C4_EveryKnownTargetPositive ==
    phase = "trained" =>
        \A u \in ObservedSources(model) : \A v \in KnownStates(model) :
            HasEntry(model, u, v) /\ Entry(model, u, v)[1] > 0

\* C5: a pair with a state outside the trained state space, or whose source
\* has no row, is scored with exactly the fallback probability; the walk goes
\* on over every pair of the session and the batch goes on to the next
\* session: no lookup ends scoring.
C5_UnknownStatesFallBack ==
    /\ phase # "score_failed"
    /\ \A k \in 1..Len(results) :
        LET r == results[k]
        IN  /\ r.error = None
            /\ Len(r.terms) = Len(r.pairs)
            /\ Len(r.pairs) = Len(r.events) + (IF variant = "batch" THEN 0 ELSE 1)
            /\ \A i \in 1..Len(r.pairs) :
                (\/ r.pairs[i][1] \notin KnownStates(model)
                 \/ r.pairs[i][2] \notin KnownStates(model)
                 \/ ~HasRow(model, r.pairs[i][1]))
                    => r.terms[i] = Fallback(variant)

\* C5 witness: the first session of a batch met an unknown state at its first
\* pair, its later pairs were scored, and a second session was scored after it.
C5_Witness ==
    /\ variant = "chain"
    /\ Len(results) = 2
    /\ Len(results[1].pairs) = 3
    /\ results[1].pairs[1][2] \notin KnownStates(model)
    /\ results[1].pairs[3][1] \in KnownStates(model)

\* C6 (as claimed): for a session of n >= 1 events the scorer looks up exactly
\* n + 1 pairs, and they are the transitions the trainer counts for that
\* session, the last-event -> end transition included.
C6_ScorerWalksTrainerPairs ==
    \A k \in 1..Len(results) :
        LET r == results[k]
        IN  r.events # <<>> =>
                /\ Len(r.pairs) = Len(r.events) + 1
                /\ r.pairs = SessionTransitions(r.events, StartOf(variant), EndOf(variant))

\* C7 (as claimed): score_session always reports a worst transition; it is a
\* pair of the padded sequence whose probability is the minimum over the
\* session's transitions, and the reported probability is that minimum.
C7_WorstTransitionReported ==
    variant # "batch" =>
        \A k \in 1..Len(results) :
            LET r == results[k]
            IN  /\ r.worst_transition # <<None>>
                /\ \E i \in 1..Len(r.pairs) :
                    r.pairs[i] = r.worst_transition /\ r.terms[i] = r.worst_prob
                /\ \A i \in 1..Len(r.terms) : ~Less(r.terms[i], r.worst_prob)

\* C8 (as claimed): once training has run over a corpus that holds a
\* non-attack session with zero events, it has failed with
\* MalformedSessionError and there is no model.
C8_EmptySessionFailsTraining ==
    (/\ phase \in {"trained", "train_failed"}
     /\ \E i \in 1..Len(corpus) : ~corpus[i].is_attack /\ corpus[i].events = <<>>)
        => (phase = "train_failed" /\ error = "MalformedSessionError" /\ model = NoModel)

\* C9 (as claimed): the scorer returns no score record for a session with
\* zero events.
C9_EmptySessionNotScored ==
    \A k \in 1..Len(results) : results[k].events # <<>>

\* ------------------------------------------------------ the scoring batch
\* The scoring mains group the log by session and score every group, normal
\* and attack alike; each result row keeps the group's label next to the score.
MaxBatch == 3

\* A group of the log: groupby yields no empty group.
Groups == [events : EventSeqs \ {<<>>}, is_attack : BOOLEAN]

\* Mutant: the label column is read into the event list.
ScoredEvents_with_label(group) ==
    IF group.is_attack THEN Append(group.events, "attack") ELSE group.events

\* events = group["event_type"].tolist()
ScoredEvents(group) == group.events

\* Mutant: the lookup goes through setdefault and leaves a row for an unseen source.
ModelAfterLookup_setdefault(m, u, v) ==
    IF m.kind = "dict" /\ u \notin DOMAIN m.probs
    THEN [m EXCEPT !.probs = @ @@ (u :> EmptyDict)]
    ELSE m

\* What one lookup leaves of the model: dict.get and the subscript reads of the
\* state map and the matrix write nothing.
ModelAfterLookup(m, u, v) == m

RECURSIVE ModelAfterScoring(_, _)
ModelAfterScoring(m, pairs) ==
    IF pairs = <<>> THEN m
    ELSE ModelAfterScoring(ModelAfterLookup(m, Head(pairs)[1], Head(pairs)[2]), Tail(pairs))

\* results.append({...}): the score record with the group's metadata.
ResultRow(group, r) == r @@ [group |-> group]

\* The body of the loop "for sid, group in df.groupby('session_id')".
ScoreGroup(group) ==
    /\ phase = "trained"
    /\ Len(results) < MaxBatch
    /\ LET r == Scorer(variant, ScoredEvents(group), model)
       IN  /\ error' = r.error
           /\ model' = ModelAfterScoring(model, r.pairs)
           /\ IF r.error = None
              THEN /\ results' = Append(results, ResultRow(group, r))
                   /\ phase' = phase
              ELSE /\ results' = results
                   /\ phase' = "score_failed"
    /\ UNCHANGED <<variant, corpus, baseline, edits, export, soft, files, runner>>

ScoreBatchStep == \E group \in Groups : ScoreGroup(group)

\* The batch is scored against models trained on normal sessions presented in
\* id order: neither attack sessions nor the presentation order reach the model.
InitBatch ==
    /\ Init
    /\ \A i \in 1..Len(corpus) : ~corpus[i].is_attack
    /\ \A i \in 1..(Len(corpus) - 1) : corpus[i].session_id < corpus[i + 1].session_id

NextBatch == Train \/ ScoreBatchStep

SpecBatch == InitBatch /\ [][NextBatch]_vars

\* The score, the worst transition and the worst probability of two result rows agree.
SameScore(a, b) ==
    /\ a.terms = b.terms
    /\ a.divisor = b.divisor
    /\ variant # "batch" =>
          /\ a.worst_transition = b.worst_transition
          /\ a.worst_prob = b.worst_prob

\* C11: scoring the same session twice against the same model, with any number
\* of other sessions scored in between, yields the same score, the same worst
\* transition and the same worst probability.
C11_RescoringIsIdentical ==
    \A j, k \in 1..Len(results) :
        (j < k /\ results[j].group = results[k].group) => SameScore(results[j], results[k])

C11_Witness ==
    /\ variant = "chain"
    /\ Len(results) = 3
    /\ results[1].group = results[3].group
    /\ results[2].group.events # results[1].group.events
    /\ results[1].worst_transition # <<None>>
    /\ results[2].worst_prob # results[1].worst_prob

\* C12: scoring a batch, sessions with event types never seen in training
\* included, leaves the trained model as the training run returned it: no state,
\* row or entry is added and no probability changes.
C12_ScoringKeepsModel ==
    results # <<>> => model = baseline

C12_Witness ==
    /\ variant = "pipeline"
    /\ Len(results) >= 2
    /\ \E k \in 1..Len(results) :
          \E i \in 1..Len(results[k].events) : results[k].events[i] \notin DOMAIN model.probs
    /\ model.counts # EmptyDict

\* C13: the scorer never uses the ground-truth label: two groups with the same
\* event list and different is_attack labels get the same score, the same worst
\* transition and the same worst probability.
C13_LabelNeverScored ==
    \A j, k \in 1..Len(results) :
        results[j].group.events = results[k].group.events => SameScore(results[j], results[k])

C13_Witness ==
    \E j, k \in 1..Len(results) :
        /\ results[j].group.events = results[k].group.events
        /\ results[j].group.is_attack /\ ~results[k].group.is_attack
        /\ Len(results[j].terms) >= 2

\* What a caller can obtain from a variant's scorer for one event list: none of
\* the three takes a mode argument, so there is one record per event list.
ScorerOutputs(v, events, m) == {Scorer(v, events, m)}

\* C14: the scorer supports both score modes as a caller-selected option: for
\* every scored session the caller can obtain the raw total (divisor 1) and the
\* normalized score (the total divided by the number of events plus 2).
C14_BothModesSelectable ==
    \A k \in 1..Len(results) :
        LET outs == ScorerOutputs(variant, results[k].events, model)
        IN  results[k].events # <<>> =>
                /\ \E r \in outs : r.terms = results[k].terms /\ r.divisor = 1
                /\ \E r \in outs : r.terms = results[k].terms
                                    /\ r.divisor = Len(results[k].events) + 2

\* ------------------------------------------------- threshold calibration
\* export_artifacts receives the result rows of the batch. Only the score and
\* the label of a row reach the threshold and the predictions; a score is a
\* number here (run_scoring stores round(score, 4)).
MaxAttackRows == 2

\* The normal scores a population draws from, and the scores of attack rows.
RefScores == <<1, 2, 3, 4, 5, 6, 7, 8, 9, 100>>
AttackScores == {9, 50, 100}

Row(score, attack) == [anomaly_score |-> score, is_attack |-> attack]

\* The elements of seq at the positions in S, in order.
RECURSIVE Pick(_, _, _)
Pick(seq, S, i) ==
    IF i > Len(seq) THEN <<>>
    ELSE (IF i \in S THEN <<seq[i]>> ELSE <<>>) \o Pick(seq, S, i + 1)

\* Result frames: normal rows first, attack rows after them.
Populations ==
    {[i \in 1..Len(ns) |-> Row(ns[i], FALSE)] \o [i \in 1..Len(as) |-> Row(as[i], TRUE)] :
        ns \in {Pick(RefScores, S, 1) : S \in SUBSET (1..Len(RefScores))},
        as \in UNION {[1..n -> AttackScores] : n \in 0..MaxAttackRows}}

\* df[df["is_attack"] == label]["anomaly_score"] for the labels in keep.
RECURSIVE ScoresWhere(_, _, _)
ScoresWhere(df, keep, i) ==
    IF i > Len(df) THEN <<>>
    ELSE (IF df[i].is_attack \in keep THEN <<df[i].anomaly_score>> ELSE <<>>)
            \o ScoresWhere(df, keep, i + 1)

\* Mutant: the quantile is taken over every row.
NormalScores_all(df) == ScoresWhere(df, BOOLEAN, 1)

\* results_df[results_df["is_attack"]==False]["anomaly_score"]
NormalScores(df) == ScoresWhere(df, {FALSE}, 1)

RECURSIVE InsertScore(_, _)
InsertScore(x, sorted_scores) ==
    IF sorted_scores = <<>> THEN <<x>>
    ELSE IF x <= Head(sorted_scores) THEN <<x>> \o sorted_scores
    ELSE <<Head(sorted_scores)>> \o InsertScore(x, Tail(sorted_scores))

RECURSIVE SortScores(_)
SortScores(scores) ==
    IF scores = <<>> THEN <<>> ELSE InsertScore(Head(scores), SortScores(Tail(scores)))

NaN == [nan |-> TRUE]
Number(num, den) == [nan |-> FALSE, num |-> num, den |-> den]

\* Mutant: interpolation = 'higher'.
quantile_higher(scores, qnum, qden) ==
    IF scores = <<>> THEN NaN
    ELSE LET sorted_scores == SortScores(scores)
             position == (Len(scores) - 1) * qnum
             lo == position \div qden
         IN  IF position % qden = 0
             THEN Number(sorted_scores[lo + 1] * qden, qden)
             ELSE Number(sorted_scores[lo + 2] * qden, qden)

\* Series.quantile(q), linear interpolation between the two order statistics
\* around position (n - 1) * q; NaN for an empty series. q is qnum / qden and
\* the value is num / qden.
quantile(scores, qnum, qden) ==
    IF scores = <<>> THEN NaN
    ELSE LET sorted_scores == SortScores(scores)
             position == (Len(scores) - 1) * qnum
             lo == position \div qden
             fraction == position % qden
         IN  IF fraction = 0
             THEN Number(sorted_scores[lo + 1] * qden, qden)
             ELSE Number(sorted_scores[lo + 1] * qden
                            + fraction * (sorted_scores[lo + 2] - sorted_scores[lo + 1]), qden)

\* threshold = <normal scores>.quantile(0.99)
Threshold(df) == quantile(NormalScores(df), 99, 100)

\* anomaly_score > threshold; a comparison with NaN is False.
Above(score, threshold) ==
    IF threshold.nan THEN FALSE ELSE score * threshold.den > threshold.num

\* x.sum() of a boolean column.
CountTrue(column) == Cardinality({i \in 1..Len(column) : column[i]})

\* "a / b if b > 0 else 0"
RatioOrZero(a, b) == IF b > 0 THEN <<a, b>> ELSE <<0, 1>>

\* export_artifacts, the metrics block. A frame without rows has no columns
\* (pd.DataFrame([])) and the first column access raises.
Metrics(df) ==
    IF df = <<>> THEN [error |-> "KeyError"]
    ELSE LET threshold == Threshold(df)
             y_pred == [i \in 1..Len(df) |-> Above(df[i].anomaly_score, threshold)]
             y_true == [i \in 1..Len(df) |-> df[i].is_attack]
             tp == CountTrue([i \in 1..Len(df) |-> y_pred[i] /\ y_true[i]])
             fp == CountTrue([i \in 1..Len(df) |-> y_pred[i] /\ ~y_true[i]])
             fn == CountTrue([i \in 1..Len(df) |-> ~y_pred[i] /\ y_true[i]])
         IN  [error |-> None, threshold |-> threshold, y_pred |-> y_pred,
              tp |-> tp, fp |-> fp, fn |-> fn,
              precision |-> RatioOrZero(tp, tp + fp), recall |-> RatioOrZero(tp, tp + fn)]

NoFirst == [set |-> FALSE]

InitCalib ==
    /\ variant = "pipeline"
    /\ corpus = <<>>
    /\ phase = "scored"
    /\ model = NoModel
    /\ results = <<>>
    /\ error = None
    /\ baseline = NoModel
    /\ edits = {}
    /\ export \in {[stage |-> "scored", results_df |-> df, first |-> NoFirst, edited |-> FALSE] :
                      df \in Populations}
    /\ soft = NoSoft
    /\ files = NoFiles
    /\ runner = NoRunner

ExportArtifacts ==
    /\ export.stage = "scored"
    /\ LET out == Metrics(export.results_df)
       IN  /\ export' = [stage |-> "exported", results_df |-> export.results_df,
                         out |-> out, edited |-> export.edited,
                         first |-> IF export.first.set THEN export.first
                                   ELSE [set |-> TRUE, out |-> out]]
           /\ error' = out.error
    /\ UNCHANGED <<variant, corpus, phase, model, results, baseline, edits, soft, files, runner>>

\* The attack rows of the frame change between two exports.
Rescored(df) ==
    /\ export.stage = "exported"
    /\ export' = [stage |-> "scored", results_df |-> df, first |-> export.first, edited |-> TRUE]
    /\ error' = None
    /\ UNCHANGED <<variant, corpus, phase, model, results, baseline, edits, soft, files, runner>>

AttackRows(df) == {i \in 1..Len(df) : df[i].is_attack}

AttackRowAdded ==
    \E x \in AttackScores :
        /\ Cardinality(AttackRows(export.results_df)) < MaxAttackRows
        /\ Rescored(Append(export.results_df, Row(x, TRUE)))

AttackRowRemoved ==
    \E i \in AttackRows(export.results_df) : Rescored(Remove(export.results_df, i))

AttackRowChanged ==
    \E i \in AttackRows(export.results_df), x \in AttackScores :
        /\ x # export.results_df[i].anomaly_score
        /\ Rescored([export.results_df EXCEPT ![i].anomaly_score = x])

NextCalib == ExportArtifacts \/ AttackRowAdded \/ AttackRowRemoved \/ AttackRowChanged

SpecCalib == InitCalib /\ [][NextCalib]_vars

Exported == export.stage = "exported" /\ export.out.error = None

\* C15: a session is predicted positive exactly when its score is at or above
\* the threshold; a score equal to the threshold is predicted positive.
C15_AtOrAboveIsPositive ==
    (Exported /\ ~export.out.threshold.nan) =>
        \A i \in 1..Len(export.results_df) :
            export.out.y_pred[i] <=>
                export.results_df[i].anomaly_score * export.out.threshold.den
                    >= export.out.threshold.num

\* C16: the threshold depends only on the scores of the non-attack sessions:
\* after attack rows were added to, removed from or rescored in the frame, with
\* the normal rows fixed, the export computes the threshold of the first export.
C16_ThresholdIgnoresAttacks ==
    (Exported /\ export.edited /\ export.first.out.error = None) =>
        export.out.threshold = export.first.out.threshold

C16_Witness ==
    /\ Exported
    /\ export.edited
    /\ export.first.out.error = None
    /\ Len(NormalScores(export.results_df)) >= 2
    /\ \E i \in AttackRows(export.results_df) : export.out.y_pred[i]
    /\ export.out # export.first.out

\* C17: with fewer normal scores than the minimum (fewer than 10, zero
\* included) calibration fails with InsufficientCalibrationData and classifies
\* nothing.
C17_TooFewNormalsRejected ==
    (export.stage = "exported" /\ export.results_df # <<>>
        /\ Len(NormalScores(export.results_df)) < 10) =>
            export.out.error = "InsufficientCalibrationData"

MaxSeries == 5
MaxTolerance == 2

Series(n) == [0..(n - 1) -> {0, 1}]

\* A series of n zeros with ones at the given indices.
Marks(n, ones) == [i \in 0..(n - 1) |-> IF i \in ones THEN 1 ELSE 0]

\* Every pair of short series, and the pair with the true anomaly at index 10
\* and the prediction at index 12.
SoftInputs ==
    UNION {[y_true : Series(n), y_pred : Series(n), tolerance : 0..MaxTolerance] :
              n \in 0..MaxSeries}
      \cup [y_true : {Marks(15, {10})}, y_pred : {Marks(15, {12})}, tolerance : {1, 3}]

Min(a, b) == IF a < b THEN a ELSE b
MaxInt(a, b) == IF a > b THEN a ELSE b

\* np.where(y == 1)[0]
Where(y) == {i \in DOMAIN y : y[i] = 1}

\* Mutant: the window's start is not clipped; a negative start counts from the
\* end of the array, as a NumPy slice does.
Dilate_unclipped(y, n, tolerance) ==
    [i \in 0..(n - 1) |->
        IF \E idx \in Where(y) :
              LET start == IF idx - tolerance < 0 THEN MaxInt(0, n + idx - tolerance)
                           ELSE idx - tolerance
                  end == Min(n, idx + tolerance + 1)
              IN  start <= i /\ i < end
        THEN 1 ELSE 0]

\* The loop "for idx in indices: soft[max(0, idx - tolerance):min(n, idx + tolerance + 1)] = 1"
\* on an array of zeros.
Dilate(y, n, tolerance) ==
    [i \in 0..(n - 1) |->
        IF \E idx \in Where(y) :
              LET start == MaxInt(0, idx - tolerance)
                  end == Min(n, idx + tolerance + 1)
              IN  start <= i /\ i < end
        THEN 1 ELSE 0]

\* np.sum((a == x) & (b == y))
CountBoth(a, x, b, y) == Cardinality({i \in DOMAIN a : a[i] = x /\ b[i] = y})

\* Mutant: strict precision, the truth is not dilated.
SoftPrecisionCounts_strict(y_true, y_pred, n, tolerance) ==
    [tp |-> CountBoth(y_pred, 1, y_true, 1), fp |-> CountBoth(y_pred, 1, y_true, 0)]

\* tp_soft and fp_soft: predictions inside and outside the dilated truth.
SoftPrecisionCounts(y_true, y_pred, n, tolerance) ==
    LET y_true_soft == Dilate(y_true, n, tolerance)
    IN  [tp |-> CountBoth(y_pred, 1, y_true_soft, 1), fp |-> CountBoth(y_pred, 1, y_true_soft, 0)]

\* Mutant: strict recall, the predictions are not dilated.
SoftRecallCounts_strict(y_true, y_pred, n, tolerance) ==
    [tp |-> CountBoth(y_pred, 1, y_true, 1), fn |-> CountBoth(y_pred, 0, y_true, 1)]

\* tp_recall and fn_recall: true anomalies inside and outside the dilated predictions.
SoftRecallCounts(y_true, y_pred, n, tolerance) ==
    LET y_pred_expanded == Dilate(y_pred, n, tolerance)
    IN  [tp |-> CountBoth(y_pred_expanded, 1, y_true, 1),
         fn |-> CountBoth(y_pred_expanded, 0, y_true, 1)]

\* float(round(a / b, 3)) in thousandths: the nearest, ties to even.
Round3(a, b) ==
    LET q == (a * 1000) \div b
        r == (a * 1000) % b
    IN  IF 2 * r < b THEN q
        ELSE IF 2 * r > b THEN q + 1
        ELSE IF q % 2 = 0 THEN q ELSE q + 1

\* Mutant: the division is not guarded; NumPy's 0 / 0 is nan, written <<0, 0>>.
RoundedRatio_unguarded(x, y) == IF y > 0 THEN <<Round3(x, y), 1000>> ELSE <<0, 0>>

\* "x / y if y > 0 else 0.0", then rounded.
RoundedRatio(x, y) == IF y > 0 THEN <<Round3(x, y), 1000>> ELSE <<0, 1000>>

evaluate_soft_metrics(y_true, y_pred, tolerance) ==
    LET n == Cardinality(DOMAIN y_true)
    IN  IF n = 0
        THEN [precision |-> <<0, 1000>>, recall |-> <<0, 1000>>, contamination |-> <<0, 1000>>]
        ELSE LET p == SoftPrecisionCounts(y_true, y_pred, n, tolerance)
                 r == SoftRecallCounts(y_true, y_pred, n, tolerance)
             IN  [precision |-> RoundedRatio(p.tp, p.tp + p.fp),
                  recall |-> RoundedRatio(r.tp, r.tp + r.fn),
                  contamination |-> RoundedRatio(Cardinality(Where(y_pred)), n)]

InitSoft ==
    /\ variant = "gridsense"
    /\ corpus = <<>>
    /\ phase = "evaluation"
    /\ model = NoModel
    /\ results = <<>>
    /\ error = None
    /\ baseline = NoModel
    /\ edits = {}
    /\ export = NoExport
    /\ soft \in {[stage |-> "called", args |-> a] : a \in SoftInputs}
    /\ files = NoFiles
    /\ runner = NoRunner

Evaluate ==
    /\ soft.stage = "called"
    /\ soft' = [stage |-> "returned", args |-> soft.args,
                 out |-> evaluate_soft_metrics(soft.args.y_true, soft.args.y_pred,
                                               soft.args.tolerance)]
    /\ UNCHANGED <<variant, corpus, phase, model, results, error, baseline, edits, export, files, runner>>

NextSoft == Evaluate

SpecSoft == InitSoft /\ [][NextSoft]_vars

Abs(x) == IF x < 0 THEN -x ELSE x

\* The positives of a that have a positive of b within the tolerance.
Near(a, b, tolerance) ==
    {p \in Where(a) : \E t \in Where(b) : Abs(p - t) <= tolerance}

\* The claims' worked example: truth {10}, predictions {12}.
IsExample(args) == Where(args.y_true) = {10} /\ Where(args.y_pred) = {12}

\* C19 as stated: the returned precision is the number of predicted positives
\* with a true positive within the tolerance, divided by the number of
\* predicted positives.
C19_PrecisionIsTheRatio ==
    (soft.stage = "returned" /\ Where(soft.args.y_pred) # {}) =>
        soft.out.precision[1] * Cardinality(Where(soft.args.y_pred))
            = soft.out.precision[2]
                * Cardinality(Near(soft.args.y_pred, soft.args.y_true, soft.args.tolerance))

\* C19, amended: the returned precision is that ratio rounded to three
\* decimals; for truth {10} and predictions {12} it is 1.0 at tolerance 3 and
\* 0.0 at tolerance 1.
C19_PrecisionIsTheRoundedRatio ==
    (soft.stage = "returned" /\ Where(soft.args.y_pred) # {}) =>
        /\ soft.out.precision =
              <<Round3(Cardinality(Near(soft.args.y_pred, soft.args.y_true,
                                        soft.args.tolerance)),
                       Cardinality(Where(soft.args.y_pred))), 1000>>
        /\ IsExample(soft.args) =>
              soft.out.precision = IF soft.args.tolerance = 3 THEN <<1000, 1000>>
                                   ELSE <<0, 1000>>

C19_Witness ==
    /\ soft.stage = "returned"
    /\ IsExample(soft.args)
    /\ soft.args.tolerance = 3
    /\ soft.out.precision = <<1000, 1000>>

\* C20 as stated: the returned recall is the number of true positives with a
\* predicted positive within the tolerance, divided by the number of true
\* positives.
C20_RecallIsTheRatio ==
    (soft.stage = "returned" /\ Where(soft.args.y_true) # {}) =>
        soft.out.recall[1] * Cardinality(Where(soft.args.y_true))
            = soft.out.recall[2]
                * Cardinality(Near(soft.args.y_true, soft.args.y_pred, soft.args.tolerance))

\* C20, amended: the returned recall is that ratio rounded to three decimals,
\* the windows around the predictions being clipped to the series; for truth
\* {10} and predictions {12} it is 1.0 at tolerance 3 and 0.0 at tolerance 1.
C20_RecallIsTheRoundedRatio ==
    (soft.stage = "returned" /\ Where(soft.args.y_true) # {}) =>
        /\ soft.out.recall =
              <<Round3(Cardinality(Near(soft.args.y_true, soft.args.y_pred,
                                        soft.args.tolerance)),
                       Cardinality(Where(soft.args.y_true))), 1000>>
        /\ IsExample(soft.args) =>
              soft.out.recall = IF soft.args.tolerance = 3 THEN <<1000, 1000>>
                                ELSE <<0, 1000>>

C20_Witness ==
    /\ soft.stage = "returned"
    /\ Cardinality(Where(soft.args.y_true)) = 3
    /\ soft.args.y_pred[0] = 1
    /\ soft.args.tolerance = 1
    /\ soft.out.recall = <<667, 1000>>

Zero3 == <<0, 1000>>

\* C21: evaluate_soft_metrics degrades to 0.0 on degenerate input instead of
\* dividing by zero: no predicted positive gives precision 0.0, no true
\* positive gives recall 0.0, and an empty series gives precision, recall and
\* contamination 0.0.
C21_DegenerateInputsGiveZero ==
    soft.stage = "returned" =>
        /\ Where(soft.args.y_pred) = {} => soft.out.precision = Zero3
        /\ Where(soft.args.y_true) = {} => soft.out.recall = Zero3
        /\ DOMAIN soft.args.y_true = {} =>
              /\ soft.out.precision = Zero3
              /\ soft.out.recall = Zero3
              /\ soft.out.contamination = Zero3

C21_Witness ==
    /\ soft.stage = "returned"
    /\ Where(soft.args.y_pred) = {}
    /\ Where(soft.args.y_true) = {}
    /\ DOMAIN soft.args.y_true # {}
    /\ soft.out.precision = Zero3
    /\ soft.out.recall = Zero3

\* ------------------------------------------------------- training runs
\* The corpora of Init and the corpus of the worked example, the sessions
\* [A, A, A, B], [A, A, A, B], [A, B] with A = login_attempt, B = mfa_challenge.
ExampleA == EventOrder[1]
ExampleB == EventOrder[2]

ExampleCorpus ==
    <<[session_id |-> 1, events |-> <<ExampleA, ExampleA, ExampleA, ExampleB>>, is_attack |-> FALSE],
      [session_id |-> 2, events |-> <<ExampleA, ExampleA, ExampleA, ExampleB>>, is_attack |-> FALSE],
      [session_id |-> 3, events |-> <<ExampleA, ExampleB>>, is_attack |-> FALSE]>>

\* One normal session [B, A, A, A, B]: A -> A is the most frequent transition,
\* and no session starts or ends with A.
LongRunCorpus ==
    <<[session_id |-> 1, events |-> <<ExampleB, ExampleA, ExampleA, ExampleA, ExampleB>>,
       is_attack |-> FALSE]>>

InitTrain ==
    /\ variant \in Variants
    /\ corpus \in Corpora \cup {ExampleCorpus, LongRunCorpus}
    /\ phase = "untrained"
    /\ model = NoModel
    /\ results = <<>>
    /\ error = None
    /\ baseline = NoModel
    /\ edits = {}
    /\ export = NoExport
    /\ soft = NoSoft
    /\ files = NoFiles
    /\ runner = NoRunner

NextTrain == Train

SpecTrain == InitTrain /\ [][NextTrain]_vars

\* Training on one of these corpora, then scoring a batch.
SpecWorked == InitTrain /\ [][Next]_vars

\* The raw count of u -> v: a cell of the count matrix, or the dict entry (an
\* absent entry was never incremented).
Count(m, u, v) ==
    IF m.kind = "matrix" THEN m.counts[m.state_to_idx[u]][m.state_to_idx[v]]
    ELSE IF u \in DOMAIN m.counts /\ v \in DOMAIN m.counts[u] THEN m.counts[u][v] ELSE 0

\* C22: within a row the trained probabilities keep the order of the raw
\* counts: count[s][t1] > count[s][t2] implies P(t1|s) > P(t2|s) for the
\* probabilities the model holds; training on [A,A,A,B], [A,A,A,B], [A,B]
\* gives P(A|A) > P(B|A).
C22_CountOrderPreserved ==
    phase = "trained" =>
        /\ \A s \in KnownStates(model) : \A t1, t2 \in RowTargets(model, s) :
              Count(model, s, t1) > Count(model, s, t2) =>
                  Less(Entry(model, s, t2), Entry(model, s, t1))
        /\ corpus = ExampleCorpus =>
              /\ Count(model, ExampleA, ExampleA) = 4
              /\ Count(model, ExampleA, ExampleB) = 3
              /\ Less(Entry(model, ExampleA, ExampleB), Entry(model, ExampleA, ExampleA))

C22_Witness ==
    /\ phase = "trained"
    /\ variant = "chain"
    /\ corpus = ExampleCorpus
    /\ Entry(model, ExampleA, ExampleA) = <<400001, 700004>>
    /\ Entry(model, ExampleA, ExampleB) = <<300001, 700004>>

\* ------------------------------------------------------- comparing scores
\* A score is the sum of -log(term) over the terms, divided by the divisor.
\* Two scores are compared without logarithms: each side's terms are weighted
\* by the other side's divisor, the terms both sides share are cancelled, and
\* what is left is bounded by whole powers of ten.
RECURSIVE PowerOfTen(_)
PowerOfTen(k) == IF k = 0 THEN 1 ELSE 10 * PowerOfTen(k - 1)

\* floor and ceiling of -log10(p) for a probability p = <<num, den>> in (0, 1].
RECURSIVE LogLo10From(_, _)
LogLo10From(ratio, k) ==
    IF k < 9 /\ PowerOfTen(k + 1) <= ratio THEN LogLo10From(ratio, k + 1) ELSE k

LogLo10(p) == LogLo10From(p[2] \div p[1], 0)

RECURSIVE LogHi10From(_, _)
LogHi10From(ratio, k) == IF PowerOfTen(k) >= ratio THEN k ELSE LogHi10From(ratio, k + 1)

LogHi10(p) == LogHi10From((p[2] + p[1] - 1) \div p[1], 0)

Occurrences(terms, t) == Cardinality({i \in 1..Len(terms) : terms[i] = t})

TermsOf(r) == {r.terms[i] : i \in 1..Len(r.terms)}

\* How often t is left on a's side after weighting and cancelling against b.
LeftOver(a, b, t) ==
    LET mine == b.divisor * Occurrences(a.terms, t)
        theirs == a.divisor * Occurrences(b.terms, t)
    IN  IF mine > theirs THEN mine - theirs ELSE 0

RECURSIVE SumOver(_, _)
SumOver(f, S) ==
    IF S = {} THEN 0
    ELSE LET x == CHOOSE y \in S : TRUE IN f[x] + SumOver(f, S \ {x})

LeftLo(a, b) ==
    LET T == TermsOf(a) IN SumOver([t \in T |-> LeftOver(a, b, t) * LogLo10(t)], T)

LeftHi(a, b) ==
    LET T == TermsOf(a) IN SumOver([t \in T |-> LeftOver(a, b, t) * LogHi10(t)], T)

\* score(a) <= score(b), decided.
ScoreAtMost(a, b) == LeftHi(a, b) <= LeftLo(b, a)

\* score(a) > score(b), decided.
ScoreAbove(a, b) == LeftLo(a, b) > LeftHi(b, a)

\* u -> v was counted in training.
Seen(m, u, v) ==
    IF m.kind = "matrix"
    THEN u \in DOMAIN m.state_to_idx /\ v \in DOMAIN m.state_to_idx /\ Count(m, u, v) > 0
    ELSE Count(m, u, v) > 0

\* The event-to-event transitions of the training corpus with the highest
\* count, when a single transition has it.
EventPairs(m) == {<<u, v>> \in EventTypes \X EventTypes : Seen(m, u, v)}

MostFrequent(m) ==
    {p \in EventPairs(m) :
        \A q \in EventPairs(m) : q # p => Count(m, q[1], q[2]) < Count(m, p[1], p[2])}

AllUnseen(r) == \A i \in 1..Len(r.pairs) : ~Seen(model, r.pairs[i][1], r.pairs[i][2])

AllMostFrequent(r) ==
    /\ Len(r.events) >= 2
    /\ \A i \in 1..(Len(r.events) - 1) : <<r.events[i], r.events[i + 1]>> \in MostFrequent(model)

\* C23: under any trained model a session all of whose padded transitions were
\* never seen in training scores strictly higher than a session whose
\* event-to-event transitions are all the single most frequent training
\* transition.
C23_UnseenOutranksMostFrequent ==
    (phase = "trained" /\ variant # "batch") =>
        \A j, k \in 1..Len(results) :
            (AllUnseen(results[j]) /\ AllMostFrequent(results[k])) =>
                ~ScoreAtMost(results[j], results[k])

\* ------------------------------------------------- model artifacts on disk
\* train_markov_chain.main writes the matrix file, then the state map file;
\* score_sequences.main loads them in the same order from another process.
\* An artifact is absent, being written (the file exists, its content is
\* incomplete) or the complete output of one training run.
MaxRuns == 2

Absent == [state |-> "absent"]
Partial(run) == [state |-> "partial", run |-> run]
Complete(run) == [state |-> "complete", run |-> run]

IdleScorer == [pc |-> "idle", error |-> None, missing |-> FALSE,
               matrix |-> Absent, state_map |-> Absent, scored |-> FALSE, output |-> FALSE]

InitFiles ==
    /\ variant = "chain"
    /\ corpus = <<>>
    /\ phase = "untrained"
    /\ model = NoModel
    /\ results = <<>>
    /\ error = None
    /\ baseline = NoModel
    /\ edits = {}
    /\ export = NoExport
    /\ soft = NoSoft
    /\ files = [matrix |-> Absent, state_map |-> Absent, trainer |-> "idle", run |-> 0,
                scorer |-> IdleScorer]
    /\ runner = NoRunner

FilesStep(next) ==
    /\ files' = next
    /\ UNCHANGED <<variant, corpus, phase, model, results, error, baseline, edits,
                   export, soft, runner>>

\* Steps 1 to 3 of main: the run's matrix and state map are in memory.
BuildModel ==
    /\ files.trainer = "idle"
    /\ files.run < MaxRuns
    /\ FilesStep([files EXCEPT !.trainer = "built", !.run = @ + 1])

\* np.save(OUT_MATRIX, transition_matrix): the file is opened for writing ...
OpenMatrix ==
    /\ files.trainer = "built"
    /\ FilesStep([files EXCEPT !.trainer = "matrix_open", !.matrix = Partial(files.run)])

\* ... and complete once np.save returns.
CloseMatrix ==
    /\ files.trainer = "matrix_open"
    /\ FilesStep([files EXCEPT !.trainer = "matrix_saved", !.matrix = Complete(files.run)])

\* OUT_STATE_MAP.open("w") truncates the file ...
OpenStateMap ==
    /\ files.trainer = "matrix_saved"
    /\ FilesStep([files EXCEPT !.trainer = "map_open", !.state_map = Partial(files.run)])

\* ... and json.dump fills it; the run is finished.
CloseStateMap ==
    /\ files.trainer = "map_open"
    /\ FilesStep([files EXCEPT !.trainer = "idle", !.state_map = Complete(files.run)])

\* The training process is killed; what it wrote stays on disk.
Interrupt ==
    /\ files.trainer # "idle"
    /\ FilesStep([files EXCEPT !.trainer = "idle"])

\* Mutant: the test fails only when both files are missing.
ArtifactsExist_either(f) == f.matrix # Absent \/ f.state_map # Absent

\* MATRIX_FILE.exists() and STATE_MAP_FILE.exists()
ArtifactsExist(f) == f.matrix # Absent /\ f.state_map # Absent

\* np.load / json.load of one artifact: a missing file and an incomplete file raise.
ReadArtifact(content) ==
    CASE content.state = "absent" -> [error |-> "FileNotFoundError"]
      [] content.state = "partial" -> [error |-> "LoadError"]
      [] content.state = "complete" -> [error |-> None, content |-> content]

ScorerFails(err) ==
    FilesStep([files EXCEPT !.scorer.pc = "failed", !.scorer.error = err])

\* load_model, the existence check.
CheckArtifacts ==
    /\ files.scorer.pc = "idle"
    /\ LET missing == files.matrix = Absent \/ files.state_map = Absent
       IN  IF ArtifactsExist(files)
           THEN FilesStep([files EXCEPT !.scorer.pc = "checked", !.scorer.missing = missing])
           ELSE FilesStep([files EXCEPT !.scorer.pc = "failed", !.scorer.missing = missing,
                                        !.scorer.error = "FileNotFoundError"])

\* matrix = np.load(MATRIX_FILE)
LoadMatrix ==
    /\ files.scorer.pc = "checked"
    /\ LET got == ReadArtifact(files.matrix)
       IN  IF got.error # None THEN ScorerFails(got.error)
           ELSE FilesStep([files EXCEPT !.scorer.pc = "matrix_loaded",
                                        !.scorer.matrix = got.content])

\* state_map = json.load(f)
LoadStateMap ==
    /\ files.scorer.pc = "matrix_loaded"
    /\ LET got == ReadArtifact(files.state_map)
       IN  IF got.error # None THEN ScorerFails(got.error)
           ELSE FilesStep([files EXCEPT !.scorer.pc = "loaded",
                                        !.scorer.state_map = got.content])

\* The scoring loop of main over every session of the log.
ScoreSessions ==
    /\ files.scorer.pc = "loaded"
    /\ FilesStep([files EXCEPT !.scorer.pc = "scored", !.scorer.scored = TRUE])

\* results_df.to_parquet / the JS artifact: the score output is written.
SaveResults ==
    /\ files.scorer.pc = "scored"
    /\ FilesStep([files EXCEPT !.scorer.pc = "done", !.scorer.output = TRUE])

NextFiles ==
    \/ BuildModel \/ OpenMatrix \/ CloseMatrix \/ OpenStateMap \/ CloseStateMap \/ Interrupt
    \/ CheckArtifacts \/ LoadMatrix \/ LoadStateMap \/ ScoreSessions \/ SaveResults

SpecFiles == InitFiles /\ [][NextFiles]_vars

ModelLoaded == files.scorer.pc \in {"loaded", "scored", "done"}

\* C24: partial models are never exposed: a scorer that loaded a model while
\* training runs wrote or were interrupted holds a matrix and a state map that
\* are the complete output of one and the same training run.
C24_LoadedModelIsOneRun ==
    ModelLoaded =>
        /\ files.scorer.matrix.state = "complete"
        /\ files.scorer.state_map.state = "complete"
        /\ files.scorer.matrix.run = files.scorer.state_map.run

\* C25: scoring attempted while a model artifact is missing fails with the
\* model-not-found error before any session is scored, and no score output is
\* written.
C25_MissingModelStopsScoring ==
    files.scorer.missing =>
        /\ files.scorer.pc = "failed"
        /\ files.scorer.error = "FileNotFoundError"
        /\ ~files.scorer.scored
        /\ ~files.scorer.output

C25_Witness ==
    /\ files.scorer.pc = "failed"
    /\ files.scorer.missing
    /\ files.matrix = Complete(1)
    /\ files.state_map = Absent
    /\ files.trainer = "idle"

\* ------------------------------------------------- rows and sentinels
\* C26: build_transition_matrix smooths only the rows with at least one
\* counted outgoing transition: a state that was never a source (SESSION_END)
\* keeps an all-zero row.
C26_UnobservedRowsStayZero ==
    (phase = "trained" /\ model.kind = "matrix") =>
        \A u \in KnownStates(model) \ ObservedSources(model) :
            \A v \in KnownStates(model) : Entry(model, u, v)[1] = 0

\* ------------------------------------------------- large corpora
\* A corpus of many sessions is held as blocks: `copies` normal sessions with
\* the same events. One block adds `copies` to the count of each of its
\* transitions, which is what the training loop does over that many sessions.
MaxBlocks == 2

BlockSizes == {1, BatchEpsilonDen, PipelineEpsilonDen}
Blocks == [session_id : SessionIds, events : EventSeqs, is_attack : {FALSE}, copies : BlockSizes]

\* The transitions of the blocks of c, counted from its k-th event on for the
\* first block, number at most room.
RECURSIVE Fits(_, _, _)
Fits(c, k, room) ==
    IF c = <<>> THEN TRUE
    ELSE IF k = Len(Head(c).events) THEN Fits(Tail(c), 0, room)
    ELSE Head(c).copies <= room /\ Fits(c, k + 1, room - Head(c).copies)

\* Corpora whose row totals reach past 1/fallback of both dict scorers.
BlockCorpora ==
    {c \in UNION {[1..n -> Blocks] : n \in 0..MaxBlocks} :
        /\ \A i \in 1..Len(c) : c[i].session_id = i
        /\ Fits(c, 0, PipelineEpsilonDen + PipelineEpsilonDen)}

\* transitions[u][v] += 1, k times
IncrBy(d, u, v, k) ==
    IF u \in DOMAIN d
    THEN [d EXCEPT ![u] = IF v \in DOMAIN @ THEN [@ EXCEPT ![v] = @ + k] ELSE @ @@ (v :> k)]
    ELSE d @@ (u :> (v :> k))

RECURSIVE IncrPairsBy(_, _, _)
IncrPairsBy(d, pairs, k) ==
    IF pairs = <<>> THEN d
    ELSE IncrPairsBy(IncrBy(d, Head(pairs)[1], Head(pairs)[2], k), Tail(pairs), k)

\* The counting loops of the two dict trainers over blocks: the pipeline
\* skips a session without events, the batch trainer raises IndexError on it.
RECURSIVE BlockCounts(_, _, _)
BlockCounts(d, blocks, v) ==
    IF blocks = <<>> THEN [error |-> None, counts |-> d]
    ELSE IF Head(blocks).events = <<>>
         THEN IF v = "pipeline" THEN BlockCounts(d, Tail(blocks), v)
              ELSE [error |-> "IndexError", counts |-> d]
    ELSE BlockCounts(
            IncrPairsBy(d, SessionTransitions(Head(blocks).events, StartOf(v), EndOf(v)),
                        Head(blocks).copies),
            Tail(blocks), v)

TrainBlocks(v, blocks) ==
    LET counted == BlockCounts(EmptyDict, blocks, v)
    IN  IF counted.error # None THEN [error |-> counted.error]
        ELSE [error |-> None, kind |-> "dict", counts |-> counted.counts,
              probs |-> ToProbabilities(counted.counts)]

InitBlocks ==
    /\ variant \in {"pipeline", "batch"}
    /\ corpus \in BlockCorpora
    /\ phase = "untrained"
    /\ model = NoModel
    /\ results = <<>>
    /\ error = None
    /\ baseline = NoModel
    /\ edits = {}
    /\ export = NoExport
    /\ soft = NoSoft
    /\ files = NoFiles
    /\ runner = NoRunner

TrainOnBlocks ==
    /\ phase = "untrained"
    /\ LET out == TrainBlocks(variant, corpus)
       IN  /\ error' = out.error
           /\ IF out.error = None
              THEN /\ model' = out
                   /\ phase' = "trained"
              ELSE /\ model' = NoModel
                   /\ phase' = "train_failed"
    /\ results' = <<>>
    /\ UNCHANGED <<variant, corpus, baseline, edits, export, soft, files, runner>>

NextBlocks == TrainOnBlocks \/ Score

SpecBlocks == InitBlocks /\ [][NextBlocks]_vars

\* C27: the fallback is the lowest probability a scorer ever uses: for every
\* model the trainer can produce, whatever the corpus size, the probability
\* used for a transition between two states the model knows is at least the
\* scorer's fallback.
C27_FallbackIsLowest ==
    \A k \in 1..Len(results) : \A i \in 1..Len(results[k].pairs) :
        (results[k].pairs[i][1] \in KnownStates(model)
            /\ results[k].pairs[i][2] \in KnownStates(model))
        => ~Less(results[k].terms[i], Fallback(variant))

\* ------------------------------------------------- run_pipeline.py
\* The orchestrator: verify that every stage script exists, then run the
\* stages of STAGES one after the other, each in a subprocess.
NumStages == 7
StageIds == 1..NumStages

\* What subprocess.run reports: an exit code, or minus the signal number of a
\* stage that was killed.
ReturnCodes == {0, 1, 2, -9}

\* sys.exit(n): the process status is n modulo 256.
ExitStatus(n) == n % 256

InitRunner ==
    /\ variant = "chain"
    /\ corpus = <<>>
    /\ phase = "untrained"
    /\ model = NoModel
    /\ results = <<>>
    /\ error = None
    /\ baseline = NoModel
    /\ edits = {}
    /\ export = NoExport
    /\ soft = NoSoft
    /\ files = NoFiles
    /\ \E present \in SUBSET StageIds :
          runner = [pc |-> "verify", scripts |-> present, started |-> <<>>, codes |-> <<>>,
                    exited |-> FALSE, status |-> 0]

RunnerStep(next) ==
    /\ runner' = next
    /\ UNCHANGED <<variant, corpus, phase, model, results, error, baseline, edits,
                   export, soft, files>>

\* main, the first loop: sys.exit(1) on the first missing script.
VerifyScripts ==
    /\ runner.pc = "verify"
    /\ IF \E i \in StageIds : i \notin runner.scripts
       THEN RunnerStep([runner EXCEPT !.pc = "exited", !.exited = TRUE, !.status = ExitStatus(1)])
       ELSE RunnerStep([runner EXCEPT !.pc = "execute"])

\* run_stage up to subprocess.run: the next stage of the list is launched.
StartStage ==
    /\ runner.pc = "execute"
    /\ Len(runner.started) < NumStages
    /\ RunnerStep([runner EXCEPT !.pc = "waiting", !.started = Append(@, Len(@) + 1)])

\* Mutant: a failed stage is reported and the loop goes on.
AfterStage_continue(r, code) ==
    [r EXCEPT !.pc = "execute", !.codes = Append(@, code)]

\* run_stage after subprocess.run: "if result.returncode != 0: sys.exit(result.returncode)".
AfterStage(r, code) ==
    IF code # 0
    THEN [r EXCEPT !.pc = "exited", !.codes = Append(@, code), !.exited = TRUE,
                   !.status = ExitStatus(code)]
    ELSE [r EXCEPT !.pc = "execute", !.codes = Append(@, code)]

\* The running stage ends and subprocess.run returns.
StageReturns ==
    /\ runner.pc = "waiting"
    /\ \E code \in ReturnCodes : RunnerStep(AfterStage(runner, code))

\* main falls off its end after the last stage.
Finish ==
    /\ runner.pc = "execute"
    /\ Len(runner.started) = NumStages
    /\ RunnerStep([runner EXCEPT !.pc = "exited", !.exited = TRUE, !.status = ExitStatus(0)])

NextRunner == VerifyScripts \/ StartStage \/ StageReturns \/ Finish

SpecRunner == InitRunner /\ [][NextRunner]_vars

\* C28: run_pipeline runs its stages strictly in list order, one at a time; a
\* stage is started only if every stage script existed at start-up and every
\* earlier stage exited with code 0; after a stage exits non-zero no later
\* stage is started and the pipeline exits with that stage's code.
C28_StagesInOrderStopOnFailure ==
    LET started == runner.started
        codes == runner.codes
    IN  /\ \A i \in 1..Len(started) : started[i] = i
        /\ Len(codes) \in {Len(started), Len(started) - 1}
        /\ Len(started) > 0 => runner.scripts = StageIds
        /\ \A i \in 1..Len(started) : \A j \in 1..(i - 1) : j <= Len(codes) /\ codes[j] = 0
        /\ \A i \in 1..Len(codes) :
              codes[i] # 0 => /\ Len(started) = i
                              /\ runner.exited
                              /\ codes[i] > 0 => runner.status = codes[i]

C28_Witness ==
    /\ runner.started = <<1, 2, 3>>
    /\ runner.codes = <<0, 0, 2>>
    /\ runner.exited
    /\ runner.status = 2

\* ------------------------------------------------- soft hit counts
\* The two hit counts of a call that got past the empty-series return.
SoftHits(args) ==
    LET n == Cardinality(DOMAIN args.y_true)
    IN  [tp_soft |-> SoftPrecisionCounts(args.y_true, args.y_pred, n, args.tolerance).tp,
         tp_recall |-> SoftRecallCounts(args.y_true, args.y_pred, n, args.tolerance).tp]

\* C29: in evaluate_soft_metrics the soft-precision hit count is positive
\* exactly when the soft-recall hit count is positive (both mean that some
\* prediction lies within the tolerance of some true anomaly); so, when there
\* are predicted and true positives, the precision before rounding is 0
\* exactly when the recall before rounding is 0.
C29_HitCountsPositiveTogether ==
    (soft.stage = "returned" /\ DOMAIN soft.args.y_true # {}) =>
        LET hits == SoftHits(soft.args)
            close == Near(soft.args.y_pred, soft.args.y_true, soft.args.tolerance) # {}
        IN  /\ (hits.tp_soft > 0) <=> close
            /\ (hits.tp_recall > 0) <=> close
            /\ (Where(soft.args.y_true) # {} /\ Where(soft.args.y_pred) # {}) =>
                  ((hits.tp_soft = 0) <=> (hits.tp_recall = 0))

C29_Witness ==
    /\ soft.stage = "returned"
    /\ DOMAIN soft.args.y_true # {}
    /\ SoftHits(soft.args).tp_soft = 2
    /\ SoftHits(soft.args).tp_recall = 1

\* ------------------------------------------------- sentinel counts
RECURSIVE SumCounts(_, _)
SumCounts(m, pairs) ==
    IF pairs = {} THEN 0
    ELSE LET p == CHOOSE q \in pairs : TRUE
         IN  Count(m, p[1], p[2]) + SumCounts(m, pairs \ {p})

\* The states a trained table can name: its own, and the two sentinels.
StatesOf(m, v) == KnownStates(m) \cup {StartOf(v), EndOf(v)}

\* The sessions that reach the counting loop: normal, with at least one event.
QualifyingSessions(c) == {i \in 1..Len(c) : ~c[i].is_attack /\ c[i].events # <<>>}

\* C30: after training on real event types no transition into SESSION_START
\* and none out of SESSION_END has been counted, and the counts out of
\* SESSION_START and the counts into SESSION_END each total the number of
\* qualifying sessions.
C30_SentinelCounts ==
    phase = "trained" =>
        LET start == StartOf(variant)
            end == EndOf(variant)
            states == StatesOf(model, variant)
            known(u, v) == model.kind = "matrix" => {u, v} \subseteq KnownStates(model)
        IN  /\ \A u \in states : known(u, start) => Count(model, u, start) = 0
            /\ \A v \in states : known(end, v) => Count(model, end, v) = 0
            /\ SumCounts(model, {start} \X KnownStates(model))
                  = Cardinality(QualifyingSessions(corpus))
            /\ SumCounts(model, KnownStates(model) \X {end})
                  = Cardinality(QualifyingSessions(corpus))

C30_Witness ==
    /\ phase = "trained"
    /\ variant = "chain"
    /\ corpus = ExampleCorpus
    /\ Count(model, START_TOKEN, ExampleA) = 3
    /\ Count(model, ExampleB, END_TOKEN) = 3

====
